---- MODULE Spec2Model ----
(***************************************************************************)
(* ThorLog: the leveled logging engine (ThorLogging, src/thorlog.h) and    *)
(* its ESP-IDF output sink (EspIdfPrint, src/thorlog_espidf.h).            *)
(*                                                                         *)
(* Characters are their ASCII codes, strings are sequences of codes.       *)
(* A variadic argument is the integer the specifier reads with va_arg: an  *)
(* int, long, unsigned or pointer value (ILP32: all one 32-bit word); a    *)
(* double argument is an integral value.  A string pointer is 0 (nullptr)  *)
(* or an address of Mem.                                                   *)
(***************************************************************************)
EXTENDS Integers, Sequences, FiniteSets, TLC

VARIABLES _level, _showLevel, _logOutput, _prefix, _suffix,
          levelArg, call, calls, argsUsed, scanEnd, fault, build

vars == <<_level, _showLevel, _logOutput, _prefix, _suffix,
          levelArg, call, calls, argsUsed, scanEnd, fault, build>>

(***************************************************************************)
(* Characters                                                              *)
(***************************************************************************)
\* The printable ASCII characters 0x20..0x7E, in code order (0x60 is spelled
\* "grave").
Printable ==
    <<" ", "!", "\"", "#", "$", "%", "&", "'", "(", ")", "*", "+", ",", "-", ".", "/",
      "0", "1", "2", "3", "4", "5", "6", "7", "8", "9", ":", ";", "<", "=", ">", "?",
      "@", "A", "B", "C", "D", "E", "F", "G", "H", "I", "J", "K", "L", "M", "N", "O",
      "P", "Q", "R", "S", "T", "U", "V", "W", "X", "Y", "Z", "[", "\\", "]", "^", "_",
      "grave", "a", "b", "c", "d", "e", "f", "g", "h", "i", "j", "k", "l", "m", "n", "o",
      "p", "q", "r", "s", "t", "u", "v", "w", "x", "y", "z", "{", "|", "}", "~">>

\* The code of a character literal: Ord["%"] = 37.
Ord ==
    [ch \in {Printable[i] : i \in 1..Len(Printable)} |->
        CHOOSE c \in 32..126 : Printable[c - 31] = ch]

\* A string literal as its sequence of codes.
Str(s) == [i \in 1..Len(s) |-> Ord[s[i]]]

(***************************************************************************)
(* Constants of thorlog.h                                                  *)
(***************************************************************************)
THORLOG_DEC == 10
THORLOG_HEX == 16
THORLOG_BIN == 2

THORLOG_LEVEL_SILENT  == 0
THORLOG_LEVEL_FATAL   == 1
THORLOG_LEVEL_ERROR   == 2
THORLOG_LEVEL_WARNING == 3
THORLOG_LEVEL_INFO    == 4
THORLOG_LEVEL_NOTICE  == 4
THORLOG_LEVEL_TRACE   == 5
THORLOG_LEVEL_VERBOSE == 6

\* The macro the build defines before it includes thorlog.h: none, the
\* switch THORLOG_DISABLE_LOGGING, or the switch of ArduinoLog, DISABLE_LOGGING.
Builds == {"", "THORLOG_DISABLE_LOGGING", "DISABLE_LOGGING"}

\* #ifndef THORLOG_DISABLE_LOGGING, as the class ThorLogging is compiled: the
\* code in these regions is part of the build.  (The mapping of
\* DISABLE_LOGGING onto THORLOG_DISABLE_LOGGING stands behind the class.)
Compiled == build # "THORLOG_DISABLE_LOGGING"

\* A faulty variant: the terminator is THORLOG_NL, "\r\n".
THORLOG_CR_AsNL == <<13, 10>>

\* "\r"
THORLOG_CR == <<13>>

\* A faulty variant: a tag of its own, N, for notice.
levels_NoticeTag == Str(<<"F", "E", "W", "N", "T", "V">>)

\* static const char levels[] = "FEWITV"
levels == Str(<<"F", "E", "W", "I", "T", "V">>)

RECURSIVE Pow2(_)
Pow2(n) == IF n = 0 THEN 1 ELSE 2 * Pow2(n - 1)

\* int, long, unsigned int, unsigned long and pointers are one 32-bit word on
\* the target (ILP32).  A word is held as the integer of its two's-complement
\* pattern, -2^31 .. 2^31-1; an unsigned reading takes it as two 16-bit halves.
WORD_BITS == 32
HalfWord == Pow2(WORD_BITS \div 2)
INT_MIN == -Pow2(WORD_BITS - 2) - Pow2(WORD_BITS - 2)

\* The word with the given halves: Word(57005, 48879) is 0xDEADBEEF.
Word(hi, lo) ==
    (IF hi >= HalfWord \div 2 THEN hi - HalfWord ELSE hi) * HalfWord + lo

\* The unsigned value of a word, as its halves.
Unsigned(w) == [hi |-> (w \div HalfWord) % HalfWord, lo |-> w % HalfWord]

\* va_arg(*args, int), va_arg(*args, long): the word as a signed value.
ToInt(w) == w
ToLong(w) == w
\* static_cast<unsigned int>(v), static_cast<unsigned long>(v), and
\* va_arg(*args, unsigned int), va_arg(*args, unsigned long): the pattern.
ToUInt(w) == w
ToULong(w) == w
\* static_cast<char>(v): the byte written
ToChar(v) == v % 256

\* x < bound for an unsigned long x and 0 < bound <= 2^31-1.
ULess(x, bound) == x >= 0 /\ x < bound

\* A faulty variant: the upper limit is not applied.
thorlog_constrain_NoUpper(val, min, max) == IF val < min THEN min ELSE val

thorlog_constrain(val, min, max) ==
    IF val < min THEN min ELSE (IF val > max THEN max ELSE val)

(***************************************************************************)
(* The sink: class ThorPrint and its implementation EspIdfPrint            *)
(***************************************************************************)
\* One digit of printf's %ld / %lu / %lx output (lowercase hex).
DigitChar(d) == IF d < 10 THEN Ord["0"] + d ELSE Ord["a"] + (d - 10)

\* One step of a conversion: an unsigned value divided by the base.
UDivMod(u, base) ==
    LET t == (u.hi % base) * HalfWord + u.lo
    IN  [q |-> [hi |-> u.hi \div base, lo |-> t \div base], r |-> t % base]

\* printf("%lu", n) for base 10, printf("%lx", n) for base 16, n unsigned.
RECURSIVE UDigits(_, _)
UDigits(u, base) ==
    IF u.hi = 0 /\ u.lo < base THEN <<DigitChar(u.lo)>>
    ELSE LET d == UDivMod(u, base)
         IN  Append(UDigits(d.q, base), DigitChar(d.r))

\* printf("%ld", n)
SDecimal(n) ==
    IF n = INT_MIN
    THEN <<Ord["-"]>> \o UDigits([hi |-> HalfWord \div 2, lo |-> 0], 10)
    ELSE IF n < 0 THEN <<Ord["-"]>> \o UDigits(Unsigned(-n), 10)
    ELSE UDigits(Unsigned(n), 10)

\* The loop of printBinary: buffer[--pos] = (num & 1) ? '1' : '0'; num >>= 1.
RECURSIVE printBinaryLoop(_, _, _)
printBinaryLoop(num, pos, buffer) ==
    IF (num.hi > 0 \/ num.lo > 0) /\ pos > 0
    THEN printBinaryLoop(UDivMod(num, 2).q, pos - 1,
                         <<IF num.lo % 2 = 1 THEN Ord["1"] ELSE Ord["0"]>> \o buffer)
    ELSE buffer

\* A faulty variant: zero is not handled on its own, and the loop leaves the
\* buffer empty for it.
printBinary_NoZeroCase(num) == printBinaryLoop(Unsigned(num), 64, <<>>)

\* EspIdfPrint::printBinary(unsigned long num): the characters written.
printBinary(num) ==
    IF Unsigned(num) = [hi |-> 0, lo |-> 0] THEN <<Ord["0"]>>
    ELSE printBinaryLoop(Unsigned(num), 64, <<>>)

\* EspIdfPrint::printSignedLong(long num, int base): the characters written.
printSignedLong(num, base) ==
    IF base = THORLOG_DEC THEN SDecimal(num)
    ELSE IF base = THORLOG_HEX
         THEN (IF num < 0 THEN UDigits(Unsigned(ToULong(num)), 16)
               ELSE UDigits(Unsigned(num), 16))
    ELSE IF base = THORLOG_BIN THEN printBinary(ToULong(num))
    ELSE SDecimal(num)

\* EspIdfPrint::printUnsignedLong(unsigned long num, int base).
printUnsignedLong(num, base) ==
    IF base = THORLOG_DEC THEN UDigits(Unsigned(num), 10)
    ELSE IF base = THORLOG_HEX THEN UDigits(Unsigned(num), 16)
    ELSE IF base = THORLOG_BIN THEN printBinary(num)
    ELSE UDigits(Unsigned(num), 10)

\* EspIdfPrint::print(double num): printf("%.2f", num), num integral.
printDouble(num) == SDecimal(num) \o Str(<<".", "0", "0">>)

\* What a decoration hook writes to the sink it is handed: the example hook
\* printTimestamp writes one bracketed field; the model's hooks write
\* "[<hook><level>] ".
HookOutput(hook, level) ==
    <<Ord["["], Ord["0"] + hook, Ord["0"] + level, Ord["]"], Ord[" "]>>

\* One call received by a sink, or one invocation of a hook with that sink.
\*   op   : "char", "str", "int", "uint", "long", "ulong", "double",
\*          "prefix", "suffix"
\*   val  : the character / number / hook; for "str" 0 is nullptr, 1 is not
\*   str  : the bytes of a "str" argument
\*   base : the base argument of the integer overloads
\*   lvl  : the level a hook is invoked with
\*   sink : the ThorPrint* the call is made on (or handed to the hook)
SinkCall(op, val, str, base, lvl, sink) ==
    [op |-> op, val |-> val, str |-> str, base |-> base, lvl |-> lvl, sink |-> sink]

\* A faulty variant: no test for nullptr, and printf("%s", nullptr) writes the
\* text "(null)".
EspIdfPrint_NullAsText(ev) ==
    IF ev.op = "char" THEN <<ev.val>>
    ELSE IF ev.op = "str"
         THEN (IF ev.val = 0 THEN Str(<<"(", "n", "u", "l", "l", ")">>) ELSE ev.str)
    ELSE IF ev.op \in {"int", "long"} THEN printSignedLong(ev.val, ev.base)
    ELSE IF ev.op \in {"uint", "ulong"} THEN printUnsignedLong(ev.val, ev.base)
    ELSE IF ev.op = "double" THEN printDouble(ev.val)
    ELSE HookOutput(ev.val, ev.lvl)

\* The characters an EspIdfPrint writes for one call.
EspIdfPrint(ev) ==
    IF ev.op = "char" THEN <<ev.val>>
    ELSE IF ev.op = "str" THEN (IF ev.val = 0 THEN <<>> ELSE ev.str)
    ELSE IF ev.op \in {"int", "long"} THEN printSignedLong(ev.val, ev.base)
    ELSE IF ev.op \in {"uint", "ulong"} THEN printUnsignedLong(ev.val, ev.base)
    ELSE IF ev.op = "double" THEN printDouble(ev.val)
    ELSE HookOutput(ev.val, ev.lvl)

\* The sinks: 1 is EspIdfOutput; 2 is a second EspIdfPrint whose stdout takes
\* nothing, so that printf reports an error for every write.
FailingSinks == {2}

\* The size_t a sink call returns: (result > 0) ? result : 0.
Returned(ev) == IF ev.sink \in FailingSinks THEN 0 ELSE Len(EspIdfPrint(ev))

\* The characters a sequence of calls puts on the console, in order.
RECURSIVE Output(_)
Output(evs) ==
    IF evs = <<>> THEN <<>> ELSE EspIdfPrint(Head(evs)) \o Output(Tail(evs))

(***************************************************************************)
(* The engine: class ThorLogging                                           *)
(***************************************************************************)
\* The strings the callers' pointer arguments point at: address -> bytes.
\* Address 0 is nullptr.
Mem ==
    (1073414160 :> Str(<<"h", "i">>)) @@ (1073414176 :> <<>>)

\* _logOutput->print(c), ->print(str), ->print(num, base), ->print(double)
PrintChar(c) == SinkCall("char", c, <<>>, 0, 0, _logOutput)
PrintStr(str) == SinkCall("str", 1, str, 0, 0, _logOutput)
PrintCStr(ptr) ==
    SinkCall("str", IF ptr = 0 THEN 0 ELSE 1, IF ptr = 0 THEN <<>> ELSE Mem[ptr],
             0, 0, _logOutput)
PrintNum(type, num, base) == SinkCall(type, num, <<>>, base, 0, _logOutput)
\* _prefix(_logOutput, level), _suffix(_logOutput, level)
HookCall(which, hook, level) == SinkCall(which, hook, <<>>, 0, level, _logOutput)

\* A faulty variant: the test against 0x10 is missing.
LeadingZeros_SixTests(x) ==
    LET below == {k \in 2..7 : ULess(x, Pow2(4 * k))}
    IN  [i \in 1..Cardinality(below) |-> PrintChar(Ord["0"])]

\* The leading zeros of %X: one per threshold x is below.
LeadingZeros(x) ==
    LET below == {k \in 1..7 : ULess(x, Pow2(4 * k))}
    IN  [i \in 1..Cardinality(below) |-> PrintChar(Ord["0"])]

\* A faulty variant: the va_list is handed to printFormat by value, so the
\* caller's list does not move on.
Took_ByValue(evs, ap) == [ev |-> evs, ap |-> ap]

\* A branch of printFormat that took its argument with va_arg(*args, T): the
\* caller's va_list (handed over by pointer) has moved on by one argument.
Took(evs, ap) == [ev |-> evs, ap |-> ap + 1]

\* A faulty variant: a final else that forwards the character to the sink.
Unrecognized_Forwarded(format, ap) == [ev |-> <<PrintChar(format)>>, ap |-> ap]

\* The end of printFormat's else-if chain: no branch for this character.
Unrecognized(format, ap) == [ev |-> <<>>, ap |-> ap]

\* ThorLogging::printFormat(format, args): the sink calls made, and the
\* position in the argument list afterwards (ap: index of the next argument).
printFormat(format, args, ap) ==
    LET a == args[ap]
        took(evs) == Took(evs, ap)
    IN
    IF format = Ord["%"] THEN [ev |-> <<PrintChar(Ord["%"])>>, ap |-> ap]
    ELSE IF format = Ord["s"] THEN took(<<PrintCStr(a)>>)
    ELSE IF format = Ord["c"] THEN took(<<PrintChar(ToChar(ToInt(a)))>>)
    ELSE IF format = Ord["C"] THEN
        LET c == ToInt(a) IN
        IF c >= 32 /\ c < 127
        THEN took(<<PrintChar(ToChar(c))>>)
        ELSE took(<<PrintStr(Str(<<"0", "x">>))>>
                  \o (IF c < 16 THEN <<PrintChar(Ord["0"])>> ELSE <<>>)
                  \o <<PrintNum("uint", ToUInt(c), THORLOG_HEX)>>)
    ELSE IF format = Ord["d"] \/ format = Ord["i"]
        THEN took(<<PrintNum("int", ToInt(a), THORLOG_DEC)>>)
    ELSE IF format = Ord["l"] THEN took(<<PrintNum("long", ToLong(a), THORLOG_DEC)>>)
    ELSE IF format = Ord["u"] THEN took(<<PrintNum("ulong", ToULong(a), THORLOG_DEC)>>)
    ELSE IF format = Ord["x"] THEN took(<<PrintNum("uint", ToUInt(a), THORLOG_HEX)>>)
    ELSE IF format = Ord["X"] THEN
        LET x == ToULong(a) IN
        took(<<PrintStr(Str(<<"0", "x">>))>> \o LeadingZeros(x)
             \o <<PrintNum("ulong", x, THORLOG_HEX)>>)
    ELSE IF format = Ord["b"] THEN took(<<PrintNum("uint", ToUInt(a), THORLOG_BIN)>>)
    ELSE IF format = Ord["B"] THEN
        took(<<PrintStr(Str(<<"0", "b">>)), PrintNum("uint", ToUInt(a), THORLOG_BIN)>>)
    ELSE IF format = Ord["t"] THEN
        took(<<PrintStr(IF ToInt(a) # 0 THEN Str(<<"t">>) ELSE Str(<<"f">>))>>)
    ELSE IF format = Ord["T"] THEN
        took(<<PrintStr(IF ToInt(a) # 0 THEN Str(<<"t", "r", "u", "e">>)
                        ELSE Str(<<"f", "a", "l", "s", "e">>))>>)
    ELSE IF format = Ord["D"] \/ format = Ord["F"] THEN took(<<PrintNum("double", a, 0)>>)
    ELSE IF format = Ord["p"] THEN
        took(<<PrintStr(Str(<<"0", "x">>)), PrintNum("ulong", ToULong(a), THORLOG_HEX)>>)
    ELSE Unrecognized(format, ap)

\* A faulty variant: no test for the '\0' after a '%', so the '\0' is
\* dispatched as a specifier and the scan goes on behind it.
RECURSIVE printLoop_NoEndTest(_, _, _, _, _)
printLoop_NoEndTest(format, i, args, ap, ev) ==
    IF i > Len(format) THEN [ev |-> ev, ap |-> ap, pos |-> i]
    ELSE IF format[i] = Ord["%"] THEN
        LET r == IF i + 1 > Len(format) THEN Unrecognized(0, ap)
                 ELSE printFormat(format[i + 1], args, ap)
        IN  printLoop_NoEndTest(format, i + 2, args, r.ap, ev \o r.ev)
    ELSE printLoop_NoEndTest(format, i + 1, args, ap, Append(ev, PrintChar(format[i])))

\* A faulty variant: the scan is given up when the write of a literal
\* character reports a zero count.
RECURSIVE printLoop_StopOnFailure(_, _, _, _, _)
printLoop_StopOnFailure(format, i, args, ap, ev) ==
    IF i > Len(format) THEN [ev |-> ev, ap |-> ap, pos |-> i]
    ELSE IF format[i] = Ord["%"] THEN
        IF i + 1 > Len(format) THEN [ev |-> ev, ap |-> ap, pos |-> i + 1]
        ELSE LET r == printFormat(format[i + 1], args, ap)
             IN  printLoop_StopOnFailure(format, i + 2, args, r.ap, ev \o r.ev)
    ELSE IF Returned(PrintChar(format[i])) = 0
        THEN [ev |-> Append(ev, PrintChar(format[i])), ap |-> ap, pos |-> i]
    ELSE printLoop_StopOnFailure(format, i + 1, args, ap,
                                 Append(ev, PrintChar(format[i])))

\* The loop of ThorLogging::print from position i of the format string, with
\* the sink calls made so far; the end of the sequence is the '\0', which
\* is at position Len(format) + 1.  pos is where the scan has stopped.
RECURSIVE printLoop(_, _, _, _, _)
printLoop(format, i, args, ap, ev) ==
    IF i > Len(format) THEN [ev |-> ev, ap |-> ap, pos |-> i]
    ELSE IF format[i] = Ord["%"] THEN
        IF i + 1 > Len(format) THEN [ev |-> ev, ap |-> ap, pos |-> i + 1]
        ELSE LET r == printFormat(format[i + 1], args, ap)
             IN  printLoop(format, i + 2, args, r.ap, ev \o r.ev)
    ELSE printLoop(format, i + 1, args, ap, Append(ev, PrintChar(format[i])))

\* ThorLogging::print(format, args)
print(format, args) == printLoop(format, 1, args, 1, <<>>)

\* A faulty variant: the level tag is written before the prefix hook runs.
Decorate_TagFirst(level, cr, msg, args) ==
    LET lvl == IF level < THORLOG_LEVEL_SILENT THEN THORLOG_LEVEL_SILENT ELSE level
        pre == IF _prefix # 0 THEN <<HookCall("prefix", _prefix, lvl)>> ELSE <<>>
        tag == IF _showLevel
               THEN <<PrintChar(levels[(lvl - 1) + 1]), PrintStr(Str(<<":", " ">>))>>
               ELSE <<>>
        body == print(msg, args)
        suf == IF _suffix # 0 THEN <<HookCall("suffix", _suffix, lvl)>> ELSE <<>>
        end == IF cr THEN <<PrintStr(THORLOG_CR)>> ELSE <<>>
    IN  [ev |-> tag \o pre \o body.ev \o suf \o end, used |-> body.ap - 1,
         scan |-> body.pos]

\* A faulty variant: the hooks are handed the threshold _level, not the level
\* of the call.
Decorate_HooksGetThreshold(level, cr, msg, args) ==
    LET lvl == IF level < THORLOG_LEVEL_SILENT THEN THORLOG_LEVEL_SILENT ELSE level
        pre == IF _prefix # 0 THEN <<HookCall("prefix", _prefix, _level)>> ELSE <<>>
        tag == IF _showLevel
               THEN <<PrintChar(levels[(lvl - 1) + 1]), PrintStr(Str(<<":", " ">>))>>
               ELSE <<>>
        body == print(msg, args)
        suf == IF _suffix # 0 THEN <<HookCall("suffix", _suffix, _level)>> ELSE <<>>
        end == IF cr THEN <<PrintStr(THORLOG_CR)>> ELSE <<>>
    IN  [ev |-> pre \o tag \o body.ev \o suf \o end, used |-> body.ap - 1,
         scan |-> body.pos]

\* ThorLogging::printLevel past its gate: the sink calls and hook
\* invocations made, in order, the number of arguments taken, and where the
\* scan of the format string has stopped.
Decorate(level, cr, msg, args) ==
    LET lvl == IF level < THORLOG_LEVEL_SILENT THEN THORLOG_LEVEL_SILENT ELSE level
        pre == IF _prefix # 0 THEN <<HookCall("prefix", _prefix, lvl)>> ELSE <<>>
        tag == IF _showLevel
               THEN <<PrintChar(levels[(lvl - 1) + 1]), PrintStr(Str(<<":", " ">>))>>
               ELSE <<>>
        body == print(msg, args)
        suf == IF _suffix # 0 THEN <<HookCall("suffix", _suffix, lvl)>> ELSE <<>>
        end == IF cr THEN <<PrintStr(THORLOG_CR)>> ELSE <<>>
    IN  [ev |-> pre \o tag \o body.ev \o suf \o end, used |-> body.ap - 1,
         scan |-> body.pos]

\* A faulty variant: the gate compares with >=, so a call at the threshold
\* itself is dropped.
printLevel_GateAtThreshold(level, cr, msg, args) ==
    IF level >= _level THEN [ev |-> <<>>, used |-> 0, scan |-> 0]
    ELSE Decorate(level, cr, msg, args)

\* A faulty variant: the prefix hook runs before the gate is looked at.
printLevel_PrefixBeforeGate(level, cr, msg, args) ==
    IF level > _level
    THEN [ev |-> IF _prefix # 0 THEN <<HookCall("prefix", _prefix, level)>> ELSE <<>>,
          used |-> 0, scan |-> 0]
    ELSE Decorate(level, cr, msg, args)

\* ThorLogging::printLevel(level, cr, msg, ...)
printLevel(level, cr, msg, args) ==
    IF level > _level THEN [ev |-> <<>>, used |-> 0, scan |-> 0]
    ELSE Decorate(level, cr, msg, args)

(***************************************************************************)
(* Inputs                                                                  *)
(***************************************************************************)
\* The level arguments tried go this far outside SILENT..VERBOSE.
LevelSlack == 1
\* The longest format string of the interpreter's exhaustive inputs.
MaxFmtLen == 4

LevelArgs ==
    (THORLOG_LEVEL_SILENT - LevelSlack)..(THORLOG_LEVEL_VERBOSE + LevelSlack)
\* The sinks a caller may hand to begin (0 is nullptr) and the hook functions
\* it may install (0 is nullptr).
Sinks == {1, 2}
Hooks == {1}

\* The specifier characters of a format string, in order: the character after
\* each '%' that opens a two-character window.
RECURSIVE Specifiers(_, _)
Specifiers(format, i) ==
    IF i > Len(format) THEN <<>>
    ELSE IF format[i] # Ord["%"] THEN Specifiers(format, i + 1)
    ELSE IF i = Len(format) THEN <<>>
    ELSE <<format[i + 1]>> \o Specifiers(format, i + 2)

\* The specifiers that take an argument with va_arg.
Consuming ==
    {Ord[c] : c \in {"s", "c", "C", "d", "i", "l", "u", "x", "X", "b", "B",
                     "t", "T", "D", "F", "p"}}
IsConsuming(c) == c \in Consuming

\* The contract of va_arg that a caller has to keep: one argument for every
\* specifier that takes one, and nullptr or a string for every %s.
ArgsMatch(msg, args) ==
    LET cs == SelectSeq(Specifiers(msg, 1), IsConsuming)
    IN  /\ Len(args) >= Len(cs)
        /\ \A k \in 1..Len(cs) : cs[k] = Ord["s"] => args[k] \in {0} \cup DOMAIN Mem

\* The calls the engine's state machine is driven with: format and arguments.
Calls ==
    { <<<<>>, <<>>>>,
      <<Str(<<"x">>), <<>>>>,
      <<Str(<<"%", "d", "%", "s">>), <<-1, 1073414160>>>>,
      <<Str(<<"H", "e", "x", ":", " ", "%", "X">>), <<57005>>>> }
\* The levels begin is called with: below the range, inside it, above it.
BeginLevels ==
    {THORLOG_LEVEL_SILENT - LevelSlack, THORLOG_LEVEL_INFO,
     THORLOG_LEVEL_VERBOSE + LevelSlack}

NoCall(entry) ==
    [entry |-> entry, level |-> 0, cr |-> FALSE, msg |-> <<>>, args |-> <<>>,
     ret |-> TRUE]

LogEntries ==
    {"fatal", "fatalln", "error", "errorln", "warning", "warningln",
     "notice", "noticeln", "info", "infoln", "trace", "traceln",
     "verbose", "verboseln"}

(***************************************************************************)
(* Operations                                                              *)
(***************************************************************************)
\* ThorLogging(): _prefix and _suffix by their default member initializers.
\* (In a build without the members the variables stay as they are here.)
Constructed ==
    /\ _level = THORLOG_LEVEL_SILENT
    /\ _showLevel = TRUE
    /\ _logOutput = 0
    /\ _prefix = 0
    /\ _suffix = 0
    /\ levelArg = THORLOG_LEVEL_SILENT
    /\ call = NoCall("ThorLogging")
    /\ calls = <<>>
    /\ argsUsed = 0
    /\ scanEnd = 0
    /\ fault = FALSE

Init == build = "" /\ Constructed

\* A configuration call returns having made no sink call.
Configured(entry) ==
    /\ ~fault
    /\ call' = NoCall(entry)
    /\ calls' = <<>>
    /\ argsUsed' = 0
    /\ scanEnd' = 0
    /\ fault' = FALSE
    /\ build' = build

\* A faulty variant: begin starts afresh and clears both hooks.
begin_ClearsHooks(level, output, showLevel) ==
    /\ Configured("begin")
    /\ _level' = IF Compiled
                 THEN thorlog_constrain(level, THORLOG_LEVEL_SILENT, THORLOG_LEVEL_VERBOSE)
                 ELSE _level
    /\ _showLevel' = IF Compiled THEN showLevel ELSE _showLevel
    /\ _logOutput' = IF Compiled THEN output ELSE _logOutput
    /\ levelArg' = level
    /\ _prefix' = 0
    /\ _suffix' = 0

begin(level, output, showLevel) ==
    /\ Configured("begin")
    /\ _level' = IF Compiled
                 THEN thorlog_constrain(level, THORLOG_LEVEL_SILENT, THORLOG_LEVEL_VERBOSE)
                 ELSE _level
    /\ _showLevel' = IF Compiled THEN showLevel ELSE _showLevel
    /\ _logOutput' = IF Compiled THEN output ELSE _logOutput
    /\ levelArg' = level
    /\ UNCHANGED <<_prefix, _suffix>>

setLevel(level) ==
    /\ Configured("setLevel")
    /\ _level' = IF Compiled
                 THEN thorlog_constrain(level, THORLOG_LEVEL_SILENT, THORLOG_LEVEL_VERBOSE)
                 ELSE _level
    /\ levelArg' = level
    /\ UNCHANGED <<_showLevel, _logOutput, _prefix, _suffix>>

getLevel == IF Compiled THEN _level ELSE THORLOG_LEVEL_SILENT

setShowLevel(showLevel) ==
    /\ Configured("setShowLevel")
    /\ _showLevel' = IF Compiled THEN showLevel ELSE _showLevel
    /\ UNCHANGED <<_level, _logOutput, _prefix, _suffix, levelArg>>

getShowLevel == IF Compiled THEN _showLevel ELSE FALSE

setPrefix(f) ==
    /\ Configured("setPrefix")
    /\ _prefix' = IF Compiled THEN f ELSE _prefix
    /\ UNCHANGED <<_level, _showLevel, _logOutput, _suffix, levelArg>>

clearPrefix ==
    /\ Configured("clearPrefix")
    /\ _prefix' = IF Compiled THEN 0 ELSE _prefix
    /\ UNCHANGED <<_level, _showLevel, _logOutput, _suffix, levelArg>>

setSuffix(f) ==
    /\ Configured("setSuffix")
    /\ _suffix' = IF Compiled THEN f ELSE _suffix
    /\ UNCHANGED <<_level, _showLevel, _logOutput, _prefix, levelArg>>

clearSuffix ==
    /\ Configured("clearSuffix")
    /\ _suffix' = IF Compiled THEN 0 ELSE _suffix
    /\ UNCHANGED <<_level, _showLevel, _logOutput, _prefix, levelArg>>

\* A faulty variant: printLevel assigns the call's level to the member _level
\* (in place of its local clamp of the parameter).
Log_StoresLevel(entry, level, cr, msg, args) ==
    /\ ~fault
    /\ ArgsMatch(msg, args)
    /\ \E r \in {IF Compiled THEN printLevel(level, cr, msg, args)
                  ELSE [ev |-> <<>>, used |-> 0, scan |-> 0]} :
          LET trap == _logOutput = 0 /\ r.ev # <<>>
          IN  /\ fault' = trap
              /\ calls' = IF trap THEN <<>> ELSE r.ev
              /\ argsUsed' = IF trap THEN 0 ELSE r.used
              /\ scanEnd' = IF trap THEN 0 ELSE r.scan
    /\ call' = [entry |-> entry, level |-> level, cr |-> cr, msg |-> msg,
                args |-> args, ret |-> TRUE]
    /\ _level' = level
    /\ UNCHANGED <<_showLevel, _logOutput, _prefix, _suffix, levelArg, build>>

\* A logging entry point: printLevel(level, cr, msg, args...) runs to its
\* return.  The first sink call or hook write through a null _logOutput
\* traps, and the program goes no further.
Log(entry, level, cr, msg, args) ==
    /\ ~fault
    /\ ArgsMatch(msg, args)
    /\ \E r \in {IF Compiled THEN printLevel(level, cr, msg, args)
                  ELSE [ev |-> <<>>, used |-> 0, scan |-> 0]} :
          LET trap == _logOutput = 0 /\ r.ev # <<>>
          IN  /\ fault' = trap
              /\ calls' = IF trap THEN <<>> ELSE r.ev
              /\ argsUsed' = IF trap THEN 0 ELSE r.used
              /\ scanEnd' = IF trap THEN 0 ELSE r.scan
    /\ call' = [entry |-> entry, level |-> level, cr |-> cr, msg |-> msg,
                args |-> args, ret |-> TRUE]
    /\ UNCHANGED <<_level, _showLevel, _logOutput, _prefix, _suffix, levelArg, build>>

fatal(msg, args)     == Log("fatal", THORLOG_LEVEL_FATAL, FALSE, msg, args)
fatalln(msg, args)   == Log("fatalln", THORLOG_LEVEL_FATAL, TRUE, msg, args)
error(msg, args)     == Log("error", THORLOG_LEVEL_ERROR, FALSE, msg, args)
errorln(msg, args)   == Log("errorln", THORLOG_LEVEL_ERROR, TRUE, msg, args)
warning(msg, args)   == Log("warning", THORLOG_LEVEL_WARNING, FALSE, msg, args)
warningln(msg, args) == Log("warningln", THORLOG_LEVEL_WARNING, TRUE, msg, args)
notice(msg, args)    == Log("notice", THORLOG_LEVEL_NOTICE, FALSE, msg, args)
noticeln(msg, args)  == Log("noticeln", THORLOG_LEVEL_NOTICE, TRUE, msg, args)
info(msg, args)      == Log("info", THORLOG_LEVEL_INFO, FALSE, msg, args)
infoln(msg, args)    == Log("infoln", THORLOG_LEVEL_INFO, TRUE, msg, args)
trace(msg, args)     == Log("trace", THORLOG_LEVEL_TRACE, FALSE, msg, args)
traceln(msg, args)   == Log("traceln", THORLOG_LEVEL_TRACE, TRUE, msg, args)
verbose(msg, args)   == Log("verbose", THORLOG_LEVEL_VERBOSE, FALSE, msg, args)
verboseln(msg, args) == Log("verboseln", THORLOG_LEVEL_VERBOSE, TRUE, msg, args)

Next ==
    \/ \E level \in BeginLevels, output \in {0} \cup Sinks, showLevel \in BOOLEAN :
          begin(level, output, showLevel)
    \/ \E level \in LevelArgs : setLevel(level)
    \/ \E showLevel \in BOOLEAN : setShowLevel(showLevel)
    \/ \E f \in Hooks : setPrefix(f)
    \/ clearPrefix
    \/ \E f \in Hooks : setSuffix(f)
    \/ clearSuffix
    \/ \E c \in Calls :
          LET msg == c[1]
              args == c[2]
          IN
             \/ fatal(msg, args)   \/ fatalln(msg, args)
             \/ error(msg, args)   \/ errorln(msg, args)
             \/ warning(msg, args) \/ warningln(msg, args)
             \/ notice(msg, args)  \/ noticeln(msg, args)
             \/ info(msg, args)    \/ infoln(msg, args)
             \/ trace(msg, args)   \/ traceln(msg, args)
             \/ verbose(msg, args) \/ verboseln(msg, args)

Spec == Init /\ [][Next]_vars

\* The same calls in a build that defines one of the two disabling macros.
InitDisabled ==
    /\ build \in Builds \ {""}
    /\ Constructed

SpecDisabled == InitDisabled /\ [][Next]_vars

(***************************************************************************)
(* The format interpreter on its own: one call on an engine that           *)
(* begin(THORLOG_LEVEL_VERBOSE, sink, showLevel) and, for the decorated    *)
(* calls, setPrefix and setSuffix have set up, the call's format string    *)
(* and arguments drawn from the sets below.                                *)
(***************************************************************************)
\* The number of arguments of the exhaustive calls.
MaxArgs == 2

\* All format strings up to MaxFmtLen over: '%', a literal that is no
\* specifier, two integer specifiers and the string specifier.
FmtAlphabet == {Ord[c] : c \in {"%", "a", "d", "x", "s"}}
FmtStrings == UNION {[1..n -> FmtAlphabet] : n \in 0..MaxFmtLen}
FmtArgLists == [1..MaxArgs -> {0, 255, 1073414160}]

\* Every two-character window "%c", c a specifier or not, with one argument.
WindowChars ==
    Consuming \cup {Ord[c] : c \in {"%", "a", "q", "z", "S", "1", " ", "\\"}}
WindowStrings == {<<Ord["%"], c>> : c \in WindowChars}
WindowValues ==
    {Pow2(k) : k \in 0..(WORD_BITS - 2)} \cup {Pow2(k) - 1 : k \in 0..(WORD_BITS - 2)}
    \cup {-Pow2(k) : k \in 0..(WORD_BITS - 2)} \cup {- Pow2(k) - 1 : k \in 0..(WORD_BITS - 2)}
    \cup {INT_MIN, -(INT_MIN + 1), 7, 10, 65, 126, 57005, 48879, Word(57005, 48879),
          1073414160, 1073414176}

\* The round trip of the specification: infoln("Hex: %X", 0xDEAD).
HexMessage == Str(<<"H", "e", "x", ":", " ", "%", "X">>)

Pending(entry, level, cr, msg, args) ==
    [entry |-> entry, level |-> level, cr |-> cr, msg |-> msg, args |-> args,
     ret |-> FALSE]

\* Format strings whose end or whose %s matters, for calls with decoration
\* around the body: a lone '%' at the end, "%%" at the end, %s in front of
\* and between other tokens.
DecoratedStrings ==
    { Str(<<"%">>), Str(<<"a", "%">>), Str(<<"%", "d", "%">>),
      Str(<<"a", "%", "%">>), Str(<<"%", "s">>),
      Str(<<"%", "s", "a", "%", "d">>), Str(<<"a", "%", "s", "%">>) }

InitFmt ==
    /\ build = ""
    /\ _level = THORLOG_LEVEL_VERBOSE
    /\ levelArg = THORLOG_LEVEL_VERBOSE
    /\ calls = <<>>
    /\ argsUsed = 0
    /\ scanEnd = 0
    /\ fault = FALSE
    /\ \/ /\ _showLevel = FALSE
          /\ _logOutput = 1 /\ _prefix = 0 /\ _suffix = 0
          /\ \E msg \in FmtStrings, args \in FmtArgLists :
                /\ ArgsMatch(msg, args)
                /\ call = Pending("notice", THORLOG_LEVEL_NOTICE, FALSE, msg, args)
       \/ /\ _showLevel \in BOOLEAN
          /\ _logOutput = 1 /\ _prefix = 0 /\ _suffix = 0
          /\ \E msg \in WindowStrings \cup {HexMessage}, v \in WindowValues :
                /\ ArgsMatch(msg, <<v>>)
                /\ \/ call = Pending("notice", THORLOG_LEVEL_NOTICE, FALSE, msg, <<v>>)
                   \/ call = Pending("infoln", THORLOG_LEVEL_INFO, TRUE, msg, <<v>>)
       \/ /\ _showLevel \in BOOLEAN
          /\ _logOutput \in Sinks
          /\ _prefix \in {0} \cup Hooks
          /\ _suffix \in {0} \cup Hooks
          /\ \E msg \in DecoratedStrings, args \in FmtArgLists :
                /\ ArgsMatch(msg, args)
                /\ \/ call = Pending("notice", THORLOG_LEVEL_NOTICE, FALSE, msg, args)
                   \/ call = Pending("infoln", THORLOG_LEVEL_INFO, TRUE, msg, args)

NextFmt ==
    /\ ~call.ret
    /\ \/ call.entry = "notice" /\ notice(call.msg, call.args)
       \/ call.entry = "infoln" /\ infoln(call.msg, call.args)

SpecFmt == InitFmt /\ [][NextFmt]_vars

(***************************************************************************)
(* Properties                                                              *)
(***************************************************************************)
\* The severity of each logging entry point, by name.
Severity ==
    [e \in LogEntries |->
        IF e \in {"fatal", "fatalln"} THEN 1
        ELSE IF e \in {"error", "errorln"} THEN 2
        ELSE IF e \in {"warning", "warningln"} THEN 3
        ELSE IF e \in {"notice", "noticeln", "info", "infoln"} THEN 4
        ELSE IF e \in {"trace", "traceln"} THEN 5
        ELSE 6]
\* The ...ln entry points.
LnEntries ==
    {"fatalln", "errorln", "warningln", "noticeln", "infoln", "traceln", "verboseln"}

\* The threshold the most recent begin/setLevel asked for, clamped to 0..6.
Threshold == IF levelArg < 0 THEN 0 ELSE IF levelArg > 6 THEN 6 ELSE levelArg

\* A logging entry point is the operation that has just returned.
Logged == call.ret /\ call.entry \in LogEntries /\ ~fault
\* ... and its severity passed, or did not pass, the threshold.
LoggedPassing == Logged /\ Severity[call.entry] <= Threshold
LoggedGatedOut == Logged /\ Severity[call.entry] > Threshold

\* The tokens of a format string: a character outside every two-character
\* window (dir FALSE), or the specifier of a window (dir TRUE).  A lone '%' at
\* the end opens no window.
RECURSIVE Tokens(_)
Tokens(f) ==
    IF f = <<>> THEN <<>>
    ELSE IF Head(f) # Ord["%"] THEN <<[dir |-> FALSE, ch |-> Head(f)]>> \o Tokens(Tail(f))
    ELSE IF Len(f) = 1 THEN <<>>
    ELSE <<[dir |-> TRUE, ch |-> f[2]]>> \o Tokens(SubSeq(f, 3, Len(f)))

\* The format string asks for at least one sink call: it holds a literal
\* character, a "%%" or a specifier that renders an argument.
BodyWrites(f) ==
    \E k \in 1..Len(Tokens(f)) :
        LET t == Tokens(f)[k]
        IN  ~t.dir \/ t.ch = Ord["%"] \/ t.ch \in Consuming

\* The number of calls of the given kind in a sequence of calls.
Count(evs, op) == Cardinality({k \in 1..Len(evs) : evs[k].op = op})

\* What follows the decoration in the calls of a passing call: the calls of
\* the body, the suffix hook if one is set, the terminator of an ...ln form.
BodyOf == print(call.msg, call.args).ev
TailOf ==
    (IF _suffix # 0
     THEN <<[op |-> "suffix", val |-> _suffix, str |-> <<>>, base |-> 0,
             lvl |-> Severity[call.entry], sink |-> _logOutput]>>
     ELSE <<>>)
    \o (IF call.entry \in LnEntries THEN <<PrintStr(<<13>>)>> ELSE <<>>)

\* C1 as stated: after begin with a valid sink, a logging call of severity L
\* writes to the sink if and only if L <= T, T the threshold set by the most
\* recent begin/setLevel.
C1_AsStated ==
    (Logged /\ _logOutput # 0) => (calls # <<>> <=> Severity[call.entry] <= Threshold)

\* C1, amended: a call of severity L > T never writes to the sink; a call with
\* L <= T (L = T included) writes to it exactly when it has something to
\* write: the level tag (showLevel), a hook, the terminator of an ...ln form,
\* or a format string that asks for a sink call.
C1_GateIffOutput ==
    (Logged /\ _logOutput # 0) =>
        (calls # <<>> <=>
            /\ Severity[call.entry] <= Threshold
            /\ \/ _showLevel
               \/ _prefix # 0
               \/ _suffix # 0
               \/ call.entry \in LnEntries
               \/ BodyWrites(call.msg))

\* C1's case: a call at the threshold itself (warningln under WARNING, set by
\* setLevel) has written to the sink.
C1_Witness ==
    /\ Logged /\ _logOutput # 0
    /\ call.entry = "warningln" /\ levelArg = 3
    /\ calls # <<>>

\* C2: begin and setLevel store their level argument clamped into 0..6, so
\* getLevel() is in 0..6 and is the clamp of the most recent argument.
C2_LevelClamped ==
    /\ getLevel \in 0..6
    /\ getLevel = (IF levelArg < 0 THEN 0 ELSE IF levelArg > 6 THEN 6 ELSE levelArg)

\* C2's case: begin was handed a level above VERBOSE.
C2_Witness == call.entry = "begin" /\ levelArg > 6 /\ getLevel = 6

\* C3: a logging call whose severity exceeds the threshold makes no sink call,
\* invokes no hook, writes no tag and no terminator, and takes no argument.
C3_GatedOutNoOp ==
    (call.ret /\ call.entry \in LogEntries /\ Severity[call.entry] > Threshold) =>
        (calls = <<>> /\ argsUsed = 0 /\ ~fault)

\* C3's case: an ...ln call with arguments, both hooks set, gated out.
C3_Witness ==
    /\ LoggedGatedOut
    /\ call.entry = "verboseln" /\ call.args # <<>>
    /\ _prefix # 0 /\ _suffix # 0 /\ _showLevel /\ _logOutput # 0

\* The invocation of a hook that the engine makes for the call at hand.
HookEvent(which, hook) ==
    [op |-> which, val |-> hook, str |-> <<>>, base |-> 0,
     lvl |-> Severity[call.entry], sink |-> _logOutput]

\* C4, for the call that has just returned: with a prefix hook set, a passing
\* call invokes it exactly once, first of all, with the engine's sink and the
\* call's severity; with none set, no call invokes one.
C4_CallInvokesPrefix ==
    Logged =>
        /\ (LoggedPassing /\ _prefix # 0) =>
              /\ Count(calls, "prefix") = 1
              /\ calls[1] = HookEvent("prefix", _prefix)
        /\ (_prefix = 0) => Count(calls, "prefix") = 0
\* ... and from one operation to the next: clearPrefix leaves no hook set, and
\* with none set, none is invoked and none becomes set by anything but
\* setPrefix.
C4_ClearedUntilSet ==
    /\ call'.entry = "clearPrefix" => _prefix' = 0
    /\ (_prefix = 0 /\ call'.entry # "setPrefix") =>
          (_prefix' = 0 /\ Count(calls', "prefix") = 0)

\* C4: while a prefix hook is set every passing logging call invokes it
\* exactly once, with the engine's sink and the call's severity, before the
\* level tag and the body; after clearPrefix no logging call invokes it until
\* setPrefix is called again.
C4_PrefixHook == [](C4_CallInvokesPrefix) /\ [][C4_ClearedUntilSet]_vars

\* C4's case: a passing call with the tag shown ran the prefix hook first, on
\* the sink of the latest begin.
C4_Witness ==
    /\ LoggedPassing /\ _prefix # 0 /\ _showLevel /\ _logOutput = 2
    /\ call.msg # <<>>
    /\ calls[1].op = "prefix" /\ calls[2].op = "char"

\* C5: in a passing call the suffix hook, if set, is invoked exactly once,
\* right after the last call of the body; an ...ln form then makes one more
\* sink call, the string "\r", and that is its last; another form makes no
\* call after the suffix hook.
C5_SuffixThenCR ==
    LoggedPassing =>
        LET rest == BodyOf \o TailOf
            n == Len(calls)
        IN  /\ n >= Len(rest)
            /\ SubSeq(calls, n - Len(rest) + 1, n) = rest
            /\ Count(calls, "suffix") = (IF _suffix # 0 THEN 1 ELSE 0)
            /\ call.entry \in LnEntries => Output(<<calls[n]>>) = <<13>>

\* C5's case: an ...ln call with a body and a suffix hook has returned.
C5_Witness ==
    /\ LoggedPassing /\ _suffix # 0
    /\ call.entry = "errorln" /\ BodyOf # <<>>
    /\ calls[Len(calls) - 1].op = "suffix"
    /\ calls[Len(calls)].op = "str"

\* The tag character of each logging entry point, by name.
TagOf ==
    [e \in LogEntries |->
        IF e \in {"fatal", "fatalln"} THEN Ord["F"]
        ELSE IF e \in {"error", "errorln"} THEN Ord["E"]
        ELSE IF e \in {"warning", "warningln"} THEN Ord["W"]
        ELSE IF e \in {"notice", "noticeln", "info", "infoln"} THEN Ord["I"]
        ELSE IF e \in {"trace", "traceln"} THEN Ord["T"]
        ELSE Ord["V"]]

BodyCalls ==
    SubSeq(calls,
           (IF _prefix # 0 THEN 1 ELSE 0) + (IF _showLevel THEN 2 ELSE 0) + 1,
           Len(calls) - Len(TailOf))

\* The window's character is no specifier of printFormat.
IsUnrecognized(t) == t.dir /\ t.ch \notin (Consuming \cup {Ord["%"]})
HasUnrecognized(f) == \E k \in 1..Len(Tokens(f)) : IsUnrecognized(Tokens(f)[k])

\* The format string with every unrecognized window replaced: by its raw
\* character alone (forward TRUE), or by nothing (forward FALSE).
RECURSIVE Rewritten(_, _)
Rewritten(toks, forward) ==
    IF toks = <<>> THEN <<>>
    ELSE LET t == Head(toks)
         IN  (IF ~t.dir THEN <<t.ch>>
              ELSE IF IsUnrecognized(t) THEN (IF forward THEN <<t.ch>> ELSE <<>>)
              ELSE <<Ord["%"], t.ch>>)
             \o Rewritten(Tail(toks), forward)

HexChars ==
    Str(<<"0", "1", "2", "3", "4", "5", "6", "7", "8", "9", "a", "b", "c", "d", "e", "f">>)
Hex4(h) ==
    <<HexChars[(h \div 4096) + 1], HexChars[((h \div 256) % 16) + 1],
      HexChars[((h \div 16) % 16) + 1], HexChars[(h % 16) + 1]>>

\* C8 as stated: %C with the integer c writes the character c when
\* 0x20 <= c <= 0x7E, and otherwise "0x" and the two hex digits of the low
\* byte of c, for every c: negative and above 0xFF included.
C8_AsStated ==
    (Logged /\ call.msg = <<Ord["%"], Ord["C"]>>) =>
        LET c == call.args[1]
        IN  Output(BodyCalls) =
                IF c >= 32 /\ c <= 126 THEN <<c>>
                ELSE Str(<<"0", "x">>) \o SubSeq(Hex4(c % 256), 3, 4)

\* C9: %X with x, 0 <= x < 2^32, writes ten characters: "0x" and the eight
\* lowercase hex digits of x, zeros in front; infoln("Hex: %X", 0xDEAD) after
\* begin(VERBOSE, sink) delivers "I: Hex: 0x0000dead\r".
C9_UpperXTenChars ==
    /\ (Logged /\ call.msg = <<Ord["%"], Ord["X"]>>) =>
          LET x == call.args[1]
          IN  /\ Len(Output(BodyCalls)) = 10
              /\ Output(BodyCalls) =
                    Str(<<"0", "x">>) \o Hex4((x \div 65536) % 65536) \o Hex4(x % 65536)
    /\ (Logged /\ call.entry = "infoln" /\ _showLevel
           /\ call.msg = HexMessage /\ call.args = <<57005>>) =>
          Output(calls) =
              Str(<<"I", ":", " ", "H", "e", "x", ":", " ",
                    "0", "x", "0", "0", "0", "0", "d", "e", "a", "d">>) \o <<13>>

\* C9's case: the round trip has run.
C9_Witness ==
    /\ Logged /\ call.entry = "infoln" /\ _showLevel
    /\ call.msg = HexMessage /\ call.args = <<57005>>
    /\ Len(Output(calls)) = 19

\* The calls a tokenized format string asks for, argument k being the next to
\* render: a literal is written as it is, "%%" writes '%', and a window with
\* a specifier that takes an argument renders argument k, the next window
\* rendering argument k + 1.
RECURSIVE Rendered(_, _, _)
Rendered(toks, args, k) ==
    IF toks = <<>> THEN <<>>
    ELSE LET t == Head(toks)
         IN  IF ~t.dir THEN <<PrintChar(t.ch)>> \o Rendered(Tail(toks), args, k)
             ELSE IF t.ch = Ord["%"]
                 THEN <<PrintChar(Ord["%"])>> \o Rendered(Tail(toks), args, k)
             ELSE IF t.ch \in Consuming
                 THEN printFormat(t.ch, <<args[k]>>, 1).ev
                      \o Rendered(Tail(toks), args, k + 1)
             ELSE printFormat(t.ch, <<>>, 1).ev \o Rendered(Tail(toks), args, k)

\* The windows of a format string whose specifier takes an argument.
TakingWindows(f) ==
    {k \in 1..Len(Tokens(f)) : Tokens(f)[k].dir /\ Tokens(f)[k].ch \in Consuming}

\* C10: the body is the in-order concatenation of the literals, written as
\* they are, and of the renderings, "%%" writing '%' and taking no argument
\* and the k-th specifier that takes one rendering the k-th argument; as many
\* arguments are taken as there are such specifiers.
C10_InOrderRendering ==
    Logged =>
        /\ BodyCalls = Rendered(Tokens(call.msg), call.args, 1)
        /\ argsUsed = Cardinality(TakingWindows(call.msg))

\* C10's case: "a%x%d" with 255 and 0 has written "aff0".
C10_Witness ==
    /\ Logged
    /\ call.msg = Str(<<"%", "x", "%", "d">>) /\ call.args[1] = 255 /\ call.args[2] = 0
    /\ Output(calls) = Str(<<"f", "f", "0">>)
    /\ argsUsed = 2

\* The format string ends with a lone '%': a '%' that is the last character
\* and is not the second character of a window.
RECURSIVE LonePercentAtEnd(_)
LonePercentAtEnd(f) ==
    IF f = <<>> THEN FALSE
    ELSE IF Head(f) # Ord["%"] THEN LonePercentAtEnd(Tail(f))
    ELSE IF Len(f) = 1 THEN TRUE
    ELSE LonePercentAtEnd(SubSeq(f, 3, Len(f)))

\* The format string without its last character.
Front(f) == SubSeq(f, 1, Len(f) - 1)

\* C11: when the format string ends with a lone '%', the body is what the
\* string without that '%' asks for, literal by literal and specifier by
\* specifier, and nothing more: the '%' makes no sink call and takes no
\* argument; the scan has stopped on the terminator, the position right
\* behind the '%', and no further; the suffix hook and the "\r" of an ...ln
\* form follow as in any call.
C11_TrailingPercent ==
    (LoggedPassing /\ LonePercentAtEnd(call.msg)) =>
        LET n == Len(calls)
        IN  /\ BodyCalls = Rendered(Tokens(Front(call.msg)), call.args, 1)
            /\ argsUsed = Cardinality(TakingWindows(Front(call.msg)))
            /\ scanEnd = Len(call.msg) + 1
            /\ n >= Len(TailOf)
            /\ SubSeq(calls, n - Len(TailOf) + 1, n) = TailOf
            /\ Count(calls, "suffix") = (IF _suffix # 0 THEN 1 ELSE 0)

\* C11's case: infoln("a%") with a suffix hook has written the 'a', run the
\* hook and written the "\r".
C11_Witness ==
    /\ LoggedPassing /\ _suffix # 0 /\ ~_showLevel /\ _prefix = 0
    /\ call.entry = "infoln" /\ call.msg = Str(<<"a", "%">>)
    /\ Len(calls) = 3
    /\ calls[1] = PrintChar(Ord["a"])
    /\ calls[2].op = "suffix" /\ Output(<<calls[3]>>) = <<13>>
    /\ scanEnd = 3

\* The engine state: the members of ThorLogging.
EngineState == <<_level, _showLevel, _logOutput, _prefix, _suffix>>

\* C12: a logging call, emitted or gated out, leaves the threshold, the
\* showLevel flag, the sink reference and both hooks as they were (the hooks
\* being functions that only write to the sink), and so getLevel() and
\* getShowLevel() as well.
C12_LoggingReadOnly ==
    [][call'.entry \in LogEntries =>
          /\ EngineState' = EngineState
          /\ getLevel' = getLevel
          /\ getShowLevel' = getShowLevel]_vars

\* C12's case: an emitted call that ran both hooks has returned on an engine
\* in other than its constructed state.
C12_Witness ==
    /\ LoggedPassing /\ call.entry = "fatalln"
    /\ Count(calls, "prefix") = 1 /\ Count(calls, "suffix") = 1
    /\ _level = 1 /\ ~_showLevel /\ _logOutput = 2

\* The number a sequence of at most 16 binary digits reads as.
RECURSIVE BinValue(_)
BinValue(ds) ==
    IF ds = <<>> THEN 0
    ELSE 2 * BinValue(Front(ds)) + (ds[Len(ds)] - Ord["0"])

\* The unsigned number a sequence of at most 32 binary digits reads as, as
\* its 16-bit halves.
BinHalves(ds) ==
    IF Len(ds) <= 16 THEN [hi |-> 0, lo |-> BinValue(ds)]
    ELSE [hi |-> BinValue(SubSeq(ds, 1, Len(ds) - 16)),
          lo |-> BinValue(SubSeq(ds, Len(ds) - 15, Len(ds)))]

\* The digits are the binary numeral of the unsigned n: binary digits only,
\* at most one per bit, the first a '1' unless n = 0 (so no zeros in front),
\* reading back as n; the single digit '0' for n = 0.
IsBinaryOf(ds, n) ==
    /\ Len(ds) \in 1..WORD_BITS
    /\ \A k \in 1..Len(ds) : ds[k] \in {Ord["0"], Ord["1"]}
    /\ BinHalves(ds) = Unsigned(n)
    /\ IF n = 0 THEN ds = <<Ord["0"]>> ELSE ds[1] = Ord["1"]

\* C13: %b with the unsigned n writes the binary numeral of n, most
\* significant digit first, with no prefix and no zeros in front ("0" for 0);
\* %B writes "0b" and then what %b writes; 10 gives "1010" and "0b1010", 0
\* gives "0" and "0b0".
C13_Binary ==
    /\ (LoggedPassing /\ call.msg = <<Ord["%"], Ord["b"]>>) =>
          LET n == call.args[1]
              out == Output(BodyCalls)
          IN  /\ IsBinaryOf(out, n)
              /\ n = 10 => out = Str(<<"1", "0", "1", "0">>)
    /\ (LoggedPassing /\ call.msg = <<Ord["%"], Ord["B"]>>) =>
          LET n == call.args[1]
              out == Output(BodyCalls)
          IN  /\ Len(out) >= 3
              /\ SubSeq(out, 1, 2) = Str(<<"0", "b">>)
              /\ IsBinaryOf(SubSeq(out, 3, Len(out)), n)
              /\ n = 10 => out = Str(<<"0", "b", "1", "0", "1", "0">>)
              /\ n = 0 => out = Str(<<"0", "b", "0">>)

\* C13's case: %B with 0 has written "0b0".
C13_Witness ==
    /\ LoggedPassing /\ call.entry = "infoln"
    /\ call.msg = <<Ord["%"], Ord["B"]>> /\ call.args[1] = 0
    /\ Output(BodyCalls) = Str(<<"0", "b", "0">>)

\* The specifiers of the windows that take an argument, in order: the k-th
\* of them takes argument k.
TakingSpecifiers(f) == SelectSeq(Specifiers(f, 1), IsConsuming)

\* The arguments that are a nullptr handed to %s.
NullStringArgs(f, args) ==
    {k \in 1..Len(TakingSpecifiers(f)) :
        TakingSpecifiers(f)[k] = Ord["s"] /\ args[k] = 0}

\* The arguments, with a pointer to an empty string for every such nullptr.
WithEmptyStrings(f, args) ==
    [k \in 1..Len(args) |->
        IF k \in NullStringArgs(f, args)
        THEN CHOOSE a \in DOMAIN Mem : Mem[a] = <<>>
        ELSE args[k]]

\* C14: a call that hands nullptr to %s returns without a fault; the sink's
\* string write for it returns 0 and writes nothing, the argument is taken,
\* and every other sink call, the number of arguments taken, the suffix hook
\* and the terminator are those of the same call with an empty string in the
\* place of the nullptr.
C14_NullString ==
    (call.ret /\ call.entry \in LogEntries /\ Severity[call.entry] <= Threshold
        /\ NullStringArgs(call.msg, call.args) # {}) =>
        LET exp == Rendered(Tokens(call.msg), WithEmptyStrings(call.msg, call.args), 1)
            n == Len(calls)
        IN  /\ ~fault
            /\ Len(BodyCalls) = Len(exp)
            /\ \A k \in 1..Len(exp) :
                  \/ BodyCalls[k] = exp[k]
                  \/ /\ exp[k].op = "str" /\ exp[k].str = <<>>
                     /\ BodyCalls[k].op = "str" /\ BodyCalls[k].val = 0
                     /\ BodyCalls[k].sink = _logOutput
                     /\ Returned(BodyCalls[k]) = 0
                     /\ EspIdfPrint(BodyCalls[k]) = <<>>
            /\ Output(BodyCalls) = Output(exp)
            /\ argsUsed = Len(TakingSpecifiers(call.msg))
            /\ SubSeq(calls, n - Len(TailOf) + 1, n) = TailOf

\* C14's case: infoln("%sa%d", nullptr, 255) with a suffix hook has written
\* "a255", run the hook and written the "\r".
C14_Witness ==
    /\ LoggedPassing /\ call.entry = "infoln" /\ _suffix # 0 /\ _logOutput = 1
    /\ call.msg = Str(<<"%", "s", "a", "%", "d">>) /\ call.args = <<0, 255>>
    /\ BodyCalls[1].op = "str" /\ Returned(BodyCalls[1]) = 0
    /\ Output(BodyCalls) = Str(<<"a", "2", "5", "5">>)
    /\ argsUsed = 2
    /\ calls[Len(calls) - 1].op = "suffix"
    /\ Output(<<calls[Len(calls)]>>) = <<13>>

\* What a passing call asks of the sink and the hooks, from the engine state,
\* the format string and the arguments alone: the prefix hook, the tag and
\* ": ", the literals and renderings, the suffix hook, the terminator.
AskedFor ==
    (IF _prefix # 0 THEN <<HookEvent("prefix", _prefix)>> ELSE <<>>)
    \o (IF _showLevel
        THEN <<PrintChar(TagOf[call.entry]), PrintStr(Str(<<":", " ">>))>>
        ELSE <<>>)
    \o Rendered(Tokens(call.msg), call.args, 1)
    \o TailOf

\* C15: the sink calls and hook invocations of a passing call are those the
\* engine state, the format string and the arguments ask for, one by one and
\* in order, on the engine's sink, be it a sink whose writes succeed or one
\* whose every write reports a zero count: none is made twice, none is left
\* out, none is added.
C15_ReturnsIgnored ==
    LoggedPassing =>
        /\ calls = AskedFor
        /\ \A k \in 1..Len(calls) : calls[k].sink = _logOutput

\* C15's case: infoln("Hex: %X", 0xDEAD) on the sink whose writes all report
\* a zero count has made all its fourteen calls.
C15_Witness ==
    /\ LoggedPassing /\ _logOutput \in FailingSinks
    /\ call.entry = "infoln" /\ call.msg = HexMessage /\ _showLevel
    /\ _prefix = 0 /\ _suffix = 0
    /\ Len(calls) = 14
    /\ \A k \in 1..Len(calls) : Returned(calls[k]) = 0

\* C16 as stated: in a build with THORLOG_DISABLE_LOGGING defined, or with
\* DISABLE_LOGGING defined, no sequence of configuration and logging calls
\* makes a sink call or invokes a hook (or reaches the sink at all),
\* getLevel() is SILENT and getShowLevel() is false throughout.
C16_AsStated ==
    build \in {"THORLOG_DISABLE_LOGGING", "DISABLE_LOGGING"} =>
        /\ calls = <<>>
        /\ ~fault
        /\ getLevel = THORLOG_LEVEL_SILENT
        /\ getShowLevel = FALSE

\* C17 as stated: from the constructed engine, whatever configuration and
\* logging calls are made, a threshold above SILENT comes only with a sink
\* that begin has supplied, and no logging call reaches an unset sink, for a
\* write or for a hook.
C17_AsStated ==
    /\ getLevel > THORLOG_LEVEL_SILENT => _logOutput # 0
    /\ ~fault

\* C18: a call of any of the 14 entry points that passes the gate carries a
\* level in 1..6, its entry point's own: the clamp of a level below SILENT is
\* not taken, the index level - 1 into the tag table is in 0..5, the tag
\* written is the table's character at that index, and each hook invoked is
\* handed that level.
C18_DecorationLevel ==
    (call.ret /\ call.entry \in LogEntries /\ call.level <= _level) =>
        /\ call.level = Severity[call.entry]
        /\ call.level >= THORLOG_LEVEL_FATAL /\ call.level <= THORLOG_LEVEL_VERBOSE
        /\ ~(call.level < THORLOG_LEVEL_SILENT)
        /\ call.level - 1 \in 0..(Len(levels) - 1)
        /\ ~fault =>
              /\ \A k \in 1..Len(calls) :
                    calls[k].op \in {"prefix", "suffix"} => calls[k].lvl = call.level
              /\ _showLevel =>
                    calls[(IF _prefix # 0 THEN 1 ELSE 0) + 1]
                        = PrintChar(levels[(call.level - 1) + 1])

\* C18's case: a call at the lowest level, fatal, under the lowest threshold
\* that lets a call pass, has run both hooks and written its tag.
C18_Witness ==
    /\ LoggedPassing /\ call.entry = "fatal" /\ _level = THORLOG_LEVEL_FATAL
    /\ _showLevel /\ _prefix # 0 /\ _suffix # 0
    /\ calls[1].lvl = 1 /\ calls[2] = PrintChar(Ord["F"])
    /\ calls[Len(calls)].op = "suffix" /\ calls[Len(calls)].lvl = 1

\* C19, for one step: the configuration call that has just returned has left
\* every part of the engine state but its own as it was.
C19_OwnPartOnly ==
    /\ call'.entry = "setLevel" =>
          UNCHANGED <<_showLevel, _logOutput, _prefix, _suffix>>
    /\ call'.entry = "setShowLevel" =>
          UNCHANGED <<_level, _logOutput, _prefix, _suffix>>
    /\ call'.entry \in {"setPrefix", "clearPrefix"} =>
          UNCHANGED <<_level, _showLevel, _logOutput, _suffix>>
    /\ call'.entry \in {"setSuffix", "clearSuffix"} =>
          UNCHANGED <<_level, _showLevel, _logOutput, _prefix>>
    /\ call'.entry = "begin" => UNCHANGED <<_prefix, _suffix>>

\* ... and, for the call that has just returned: the hooks that are set, set
\* before the latest begin or after it, are the hooks a passing call invokes.
C19_HooksInvoked ==
    LoggedPassing =>
        /\ _prefix # 0 => calls[1] = HookEvent("prefix", _prefix)
        /\ _suffix # 0 =>
              calls[Len(calls) - (IF call.entry \in LnEntries THEN 1 ELSE 0)]
                  = HookEvent("suffix", _suffix)

\* C19: setLevel changes only the threshold, setShowLevel only the showLevel
\* flag, setPrefix and clearPrefix only the prefix hook, setSuffix and
\* clearSuffix only the suffix hook; begin changes threshold, showLevel and
\* sink and leaves both hooks, so that a hook set before a begin is invoked
\* by the passing calls after it.
C19_ConfigFrames == [](C19_HooksInvoked) /\ [][C19_OwnPartOnly]_vars

\* C19's case: begin has returned, for a new sink, on an engine with both
\* hooks set.
C19_Witness ==
    /\ call.ret /\ call.entry = "begin" /\ ~fault
    /\ _prefix # 0 /\ _suffix # 0 /\ _logOutput = 2 /\ ~_showLevel
    /\ _level = THORLOG_LEVEL_VERBOSE

====
